---------------------------- MODULE Spec2Model ----------------------------
(***************************************************************************)
(* A model of the sky computation engine of that-night-sky                 *)
(* (src/src/thatnightsky/compute.py): geocode_address with its two         *)
(* geocoding providers, the observer frame (timezone lookup and            *)
(* localisation of the local timestamp), and compute_sky_data.             *)
(*                                                                         *)
(* Optional values (Python's None) are sequences of length at most one:    *)
(* None is <<>> and a present value v is <<v>>.                            *)
(* Magnitudes are in tenths (6.5 is 65).  Of a StarRecord the azimuth is in *)
(* whole degrees and the altitude in hundredths of a degree; of a          *)
(* ConstellationPosition both are in tenths, the one decimal they are      *)
(* rounded to.                                                             *)
(***************************************************************************)
EXTENDS Integers, Sequences, FiniteSets, TLC

VARIABLES
    pc,                 \* position of the query inside run / geocode_address
    env_key,            \* os.environ.get("VWORLD_API_KEY") is truthy
    address,            \* QueryInput.address
    when,               \* QueryInput.when
    lang,               \* lang argument of run
    limiting_magnitude, \* limiting_magnitude argument of run (tenths)
    calls,              \* provider requests issued by this call, in order
    lat,                \* local lat of geocode_address (None or a value)
    lng,                \* local lng of geocode_address
    address_display,    \* local address_display of geocode_address
    tz_str,             \* None before _tf.timezone_at is called, then Some(its result)
    exc,                \* exception that left run (None while none has)
    context,            \* ObserverContext returned by geocode_address
    sky_data,           \* SkyData returned by compute_sky_data
    stars_df,           \* process-wide star catalog _stars_df
    fab,                \* lines of resources/constellationship.fab
    fab_updates,        \* contents a writer may leave in place of the file
    ephem,              \* alt/az the ephemeris gives, per observer frame and star
    sky_log,            \* the calls of compute_sky_data so far, with their outcomes
    sin_sum_err,        \* sign of the rounding error of a sum of sines that cancel
    session,            \* st.session_state of the app's session
    app                 \* the app's script runner: page, pending rerun, calls made

vars == <<pc, env_key, address, when, lang, limiting_magnitude, calls, lat,
          lng, address_display, tz_str, exc, context, sky_data, stars_df,
          fab, fab_updates, ephem, sky_log, sin_sum_err, session, app>>

None == <<>>
Some(v) == <<v>>

-----------------------------------------------------------------------------
(* Inputs and collaborators of the address resolver                        *)

Addresses == {"Gaya-dong Busan", "221B Baker Street"}
Langs == {"ko", "en"}

\* Points a geocoder can answer with: [lat, lng] in whole degrees and the
\* provider's own label of the place.
Places ==
    { [lat |-> 35, lng |-> 129, name |-> "Busan"],
      [lat |-> 41, lng |-> -74, name |-> "New York"],
      [lat |-> 0, lng |-> -30, name |-> "mid-Atlantic"] }

\* data["refined"]["text"] of a vworld answer for a place
RefinedText(p) ==
    CASE p.name = "Busan" -> "vworld: Busan Busanjin-gu Gaya-dong"
      [] p.name = "New York" -> "vworld: New York"
      [] OTHER -> "vworld: mid-Atlantic"

\* r["display_name"] of the first Nominatim result for a place
DisplayName(p) ==
    CASE p.name = "Busan" -> "nominatim: Gaya-dong, Busan, South Korea"
      [] p.name = "New York" -> "nominatim: New York, United States"
      [] OTHER -> "nominatim: Atlantic Ocean"

\* What one HTTP exchange with vworld can end in: status OK, status
\* NOT_FOUND, any other status, an HTTP error status, a timeout, a body
\* that is not the expected JSON.
VworldOutcomes == {"OK", "NOT_FOUND", "ERROR", "HTTP_ERROR", "TIMEOUT", "MALFORMED"}

\* What one HTTP exchange with Nominatim can end in.
NominatimOutcomes == {"MATCH", "EMPTY", "HTTP_ERROR", "TIMEOUT", "MALFORMED"}

\* The exception each failing exchange raises inside the provider function.
TransportException(outcome) ==
    CASE outcome = "HTTP_ERROR" -> [type |-> "httpx.HTTPStatusError", msg |-> "raise_for_status", args |-> <<>>]
      [] outcome = "TIMEOUT" -> [type |-> "httpx.TimeoutException", msg |-> "timeout", args |-> <<>>]
      [] OTHER -> [type |-> "KeyError", msg |-> "malformed response", args |-> <<>>]

GeocodingError(msg, args) == [type |-> "GeocodingError", msg |-> msg, args |-> args]

\* _geocode_vworld(address, addr_type): the value it returns or the
\* exception it raises, for each way the exchange can end.
\*   [ret |-> data or None, raised |-> exception or None]
geocode_vworld(outcome, p) ==
    CASE outcome = "OK" ->
            [ret |-> Some([point |-> [x |-> p.lng, y |-> p.lat],
                           refined |-> RefinedText(p)]),
             raised |-> None]
      [] outcome = "NOT_FOUND" -> [ret |-> None, raised |-> None]
      [] outcome = "ERROR" ->
            [ret |-> None, raised |-> Some(GeocodingError("vworld error", <<>>))]
      [] OTHER -> [ret |-> None, raised |-> Some(TransportException(outcome))]

\* _geocode_nominatim(address): (lat, lng, display_name), None, or raises.
geocode_nominatim(outcome, p) ==
    CASE outcome = "MATCH" ->
            [ret |-> Some([lat |-> p.lat, lng |-> p.lng, display_name |-> DisplayName(p)]),
             raised |-> None]
      [] outcome = "EMPTY" -> [ret |-> None, raised |-> None]
      [] OTHER -> [ret |-> None, raised |-> Some(TransportException(outcome))]

\* Variant of CaughtByRegionalTry: the try block catches nothing
CaughtByRegionalTry_Nothing(e) == FALSE

\* except GeocodingError: pass -- the exceptions the regional try block catches
CaughtByRegionalTry(e) == e.type = "GeocodingError"

\* An entry of the request log: the request and how the exchange ended
VworldCall(addr_type, outcome, ret) ==
    [provider |-> "vworld", type |-> addr_type, q |-> address, outcome |-> outcome, ret |-> ret]
NominatimCall(outcome, ret) ==
    [provider |-> "nominatim", type |-> "search", q |-> address, outcome |-> outcome, ret |-> ret]


-----------------------------------------------------------------------------
(* Observer frame: strptime, timezone lookup, localisation                 *)

\* Local timestamps a query can carry.  Naive datetimes are minutes since
\* 2021-01-01 00:00 on the wall clock.
Whens ==
    { "1995-01-15 00:00", "2021-07-01 12:00", "2021-03-14 02:30",
      "2021-11-07 01:30", "tomorrow night" }

\* datetime.strptime(when, "%Y-%m-%d %H:%M"): the naive datetime, or None
\* where strptime raises ValueError.
strptime(w) ==
    CASE w = "1995-01-15 00:00" -> Some(-13655520)
      [] w = "2021-07-01 12:00" -> Some(261360)
      [] w = "2021-03-14 02:30" -> Some(103830)
      [] w = "2021-11-07 01:30" -> Some(446490)
      [] OTHER -> None

\* _tf.timezone_at(lat=lat, lng=lng): the zone of the point, None where no
\* timezone polygon covers it.
timezone_at(la, lo) ==
    CASE la = 35 /\ lo = 129 -> Some("Asia/Seoul")
      [] la = 41 /\ lo = -74 -> Some("America/New_York")
      [] OTHER -> None

\* UTC offset (minutes) of a zone at a UTC instant.  America/New_York is on
\* daylight time from 2021-03-14 07:00 UTC to 2021-11-07 06:00 UTC.
\* (minutes 104100 and 446760 since 2021-01-01 00:00 UTC).
UtcOffsetAt(zone, u) ==
    CASE zone = "Asia/Seoul" -> 540
      [] zone = "America/New_York" ->
            IF 104100 <= u /\ u < 446760 THEN -240 ELSE -300
      [] OTHER -> 0

ZoneOffsets(zone) ==
    CASE zone = "Asia/Seoul" -> {540}
      [] zone = "America/New_York" -> {-240, -300}
      [] OTHER -> {0}

\* UTC instants whose wall-clock reading in the zone is the naive datetime
PossibleUtc(zone, dt) ==
    { u \in { dt - off : off \in ZoneOffsets(zone) } : u + UtcOffsetAt(zone, u) = dt }

\* local_tz.localize(dt, is_dst=None).astimezone(utc): with is_dst=None
\* pytz raises on a wall-clock time that no instant or two instants have.
localize(zone, dt) ==
    LET possible == PossibleUtc(zone, dt)
    IN  IF Cardinality(possible) = 1
        THEN [ret |-> Some(CHOOSE u \in possible : TRUE), raised |-> None]
        ELSE IF possible = {}
        THEN [ret |-> None,
              raised |-> Some([type |-> "pytz.NonExistentTimeError", msg |-> "localize", args |-> <<>>])]
        ELSE [ret |-> None,
              raised |-> Some([type |-> "pytz.AmbiguousTimeError", msg |-> "localize", args |-> <<>>])]

ObserverContext(la, lo, utc_dt, display) ==
    [lat |-> la, lng |-> lo, utc_dt |-> utc_dt, address_display |-> display]

-----------------------------------------------------------------------------
(* run / geocode_address, one step per provider exchange                   *)

\* Variant of AddressNotFound: the message leaves the address out
AddressNotFound_NoAddress(a) == GeocodingError("Address not found", <<>>)

\* raise GeocodingError(f"Address not found: {address}")
AddressNotFound(a) == GeocodingError("Address not found", <<a>>)

\* Variant of TimezoneNotFound: an exception of another type
TimezoneNotFound_Untyped(la, lo) ==
    [type |-> "LookupError", msg |-> "Timezone not found", args |-> <<la, lo>>]

\* raise GeocodingError(f"Timezone not found: lat={lat}, lng={lng}")
TimezoneNotFound(la, lo) == GeocodingError("Timezone not found", <<la, lo>>)

\* if lang == "ko" and os.environ.get("VWORLD_API_KEY")
RegionalEnabled(l, key) == l = "ko" /\ key

\* limiting_magnitude values a caller passes (6.5 is the default)
LimitingMagnitudes == {65, 10}

Raise(e) ==
    /\ pc' = "raised"
    /\ exc' = Some(e)

\* run(query, limiting_magnitude, lang) is entered; geocode_address sets its
\* locals and decides whether the regional path is taken.
run ==
    /\ pc = "idle"
    /\ \E a \in Addresses, w \in Whens, l \in Langs, m \in LimitingMagnitudes :
        /\ address' = a
        /\ when' = w
        /\ lang' = l
        /\ limiting_magnitude' = m
        /\ address_display' = a
        /\ pc' = IF RegionalEnabled(l, env_key) THEN "vworld_road" ELSE "nominatim"
    /\ lat' = None
    /\ lng' = None
    /\ UNCHANGED <<env_key, calls, tz_str, exc, context, sky_data, stars_df, fab,
                   fab_updates, ephem, sky_log, sin_sum_err, session, app>>

\* Variant of RegionalExchange: the `if lat is None` test is lost, so the
\* global provider is queried after a regional match too
RegionalExchange_ThenGlobal(addr_type, on_none) ==
    \E o \in VworldOutcomes, p \in Places :
        LET r == geocode_vworld(o, p) IN
        /\ calls' = Append(calls, VworldCall(addr_type, o, r.ret))
        /\ IF r.raised # None
           THEN IF CaughtByRegionalTry(r.raised[1])
                THEN /\ pc' = "nominatim"
                     /\ UNCHANGED <<lat, lng, address_display, exc>>
                ELSE /\ Raise(r.raised[1])
                     /\ UNCHANGED <<lat, lng, address_display>>
           ELSE IF r.ret # None
           THEN /\ lng' = Some(r.ret[1].point.x)
                /\ lat' = Some(r.ret[1].point.y)
                /\ address_display' = r.ret[1].refined
                /\ pc' = "nominatim"
                /\ UNCHANGED exc
           ELSE /\ pc' = on_none
                /\ UNCHANGED <<lat, lng, address_display, exc>>

\* One regional exchange inside the try block: a match sets the locals and
\* skips the global provider, None goes on to `on_none`, GeocodingError is
\* swallowed, any other exception leaves geocode_address.
RegionalExchange(addr_type, on_none) ==
    \E o \in VworldOutcomes, p \in Places :
        LET r == geocode_vworld(o, p) IN
        /\ calls' = Append(calls, VworldCall(addr_type, o, r.ret))
        /\ IF r.raised # None
           THEN IF CaughtByRegionalTry(r.raised[1])
                THEN /\ pc' = "nominatim"
                     /\ UNCHANGED <<lat, lng, address_display, exc>>
                ELSE /\ Raise(r.raised[1])
                     /\ UNCHANGED <<lat, lng, address_display>>
           ELSE IF r.ret # None
           THEN /\ lng' = Some(r.ret[1].point.x)
                /\ lat' = Some(r.ret[1].point.y)
                /\ address_display' = r.ret[1].refined
                /\ pc' = "frame"
                /\ UNCHANGED exc
           ELSE /\ pc' = on_none
                /\ UNCHANGED <<lat, lng, address_display, exc>>

\* _geocode_vworld(address, "ROAD")
vworld_road ==
    /\ pc = "vworld_road"
    /\ RegionalExchange("ROAD", "vworld_parcel")
    /\ UNCHANGED <<env_key, address, when, lang, limiting_magnitude, tz_str,
                   context, sky_data, stars_df, fab,
                   fab_updates, ephem, sky_log, sin_sum_err, session, app>>

\* Variant of vworld_parcel: PARCEL is asked again after a not-found
vworld_parcel_Retry ==
    /\ pc = "vworld_parcel"
    /\ RegionalExchange("PARCEL", IF Len(calls) < 3 THEN "vworld_parcel" ELSE "nominatim")
    /\ UNCHANGED <<env_key, address, when, lang, limiting_magnitude, tz_str,
                   context, sky_data, stars_df, fab,
                   fab_updates, ephem, sky_log, sin_sum_err, session, app>>

\* ... or _geocode_vworld(address, "PARCEL")
vworld_parcel ==
    /\ pc = "vworld_parcel"
    /\ RegionalExchange("PARCEL", "nominatim")
    /\ UNCHANGED <<env_key, address, when, lang, limiting_magnitude, tz_str,
                   context, sky_data, stars_df, fab,
                   fab_updates, ephem, sky_log, sin_sum_err, session, app>>

\* if lat is None: result = _geocode_nominatim(address) ...
nominatim ==
    /\ pc = "nominatim"
    /\ \E o \in NominatimOutcomes, p \in Places :
        LET r == geocode_nominatim(o, p) IN
        /\ calls' = Append(calls, NominatimCall(o, r.ret))
        /\ IF r.raised # None
           THEN /\ Raise(r.raised[1])
                /\ UNCHANGED <<lat, lng, address_display>>
           ELSE IF r.ret = None
           THEN /\ Raise(AddressNotFound(address))
                /\ UNCHANGED <<lat, lng, address_display>>
           ELSE /\ lat' = Some(r.ret[1].lat)
                /\ lng' = Some(r.ret[1].lng)
                /\ address_display' = r.ret[1].display_name
                /\ pc' = "frame"
                /\ UNCHANGED exc
    /\ UNCHANGED <<env_key, address, when, lang, limiting_magnitude, tz_str,
                   context, sky_data, stars_df, fab,
                   fab_updates, ephem, sky_log, sin_sum_err, session, app>>

\* The rest of geocode_address: strptime, timezone lookup, localize, return.
observer_frame ==
    /\ pc = "frame"
    /\ LET dt == strptime(when) IN
       IF dt = None
       THEN /\ Raise([type |-> "ValueError", msg |-> "strptime", args |-> <<>>])
            /\ UNCHANGED <<tz_str, context>>
       ELSE LET tz == timezone_at(lat[1], lng[1]) IN
            /\ tz_str' = Some(tz)
            /\ IF tz = None
               THEN /\ Raise(TimezoneNotFound(lat[1], lng[1]))
                    /\ UNCHANGED context
               ELSE LET loc == localize(tz[1], dt[1]) IN
                    IF loc.raised # None
                    THEN /\ Raise(loc.raised[1])
                         /\ UNCHANGED context
                    ELSE /\ context' = Some(ObserverContext(lat[1], lng[1], loc.ret[1], address_display))
                         /\ pc' = "compute"
                         /\ UNCHANGED exc
    /\ UNCHANGED <<env_key, address, when, lang, limiting_magnitude, calls, lat,
                   lng, address_display, sky_data, stars_df, fab,
                   fab_updates, ephem, sky_log, sin_sum_err, session, app>>

-----------------------------------------------------------------------------
(* Star catalog, constellation file, ephemeris                             *)

MaxStars == 3

Hips == 1..MaxStars

\* A row of _stars_df: Hipparcos number (the index), magnitude in tenths,
\* ra_degrees / dec_degrees (None where the catalog has NaN).
CatalogRow(h, m, has_position) ==
    [hip |-> h, magnitude |-> m,
     ra_degrees |-> IF has_position THEN Some(30 * h) ELSE None,
     dec_degrees |-> IF has_position THEN Some(10 * h) ELSE None]

\* The rows a star may have: the first three stars any magnitude from the
\* brightest of the catalog (-1.4) to one past the default limit, later
\* stars a faint one; with a position, or without.
RowChoices(h) ==
    IF h <= 3
    THEN { CatalogRow(h, -14, TRUE), CatalogRow(h, 10, TRUE), CatalogRow(h, 60, TRUE),
           CatalogRow(h, 70, TRUE), CatalogRow(h, 60, FALSE) }
    ELSE { CatalogRow(h, 60, TRUE), CatalogRow(h, 60, FALSE) }

\* Catalogs: one row per Hipparcos number, in index order.
Catalogs == { df \in [Hips -> UNION { RowChoices(h) : h \in Hips }] :
                \A h \in Hips : df[h] \in RowChoices(h) }

\* What apparent.altaz() can answer for one star: altitude in hundredths of
\* a degree, azimuth in whole degrees.
AltAz ==
    { [alt |-> -500, az |-> 10], [alt |-> 0, az |-> 350], [alt |-> 4004, az |-> 10] }

\* The observer frame the ephemeris is asked about
FrameKey(ctx) == <<ctx.lat, ctx.lng, ctx.utc_dt>>

\* The answers a frame's earlier computations fix for a star
Answered(key, h) == { e \in ephem : e.key = key /\ e.hip = h }

\* Contents of resources/constellationship.fab: lines of whitespace
\* separated tokens, "IAU_abbr line_pair_count HIP1 HIP2 HIP3 HIP4 ...".
FabFiles ==
    { << <<"Ori", "2", "1", "2", "3", "4">>, <<"UMa", "1", "3", "4">> >>,
      << <<"Ori", "1", "1", "2">>, <<"Lyr", "1", "3">>,
         <<"UMa", "2", "2", "3", "1", "3">>, <<"Ori", "1", "3", "1">> >>,
      << <<"Cyg", "2", "1", "2", "3">>, <<>>, <<"Lyr", "1", "2", "2">> >> }

\* int(p) for a token of the file: None where int raises ValueError
IntOf(tok) ==
    CASE tok = "1" -> Some(1)
      [] tok = "2" -> Some(2)
      [] tok = "3" -> Some(3)
      [] tok = "4" -> Some(4)
      [] tok = "5" -> Some(5)
      [] OTHER -> None

ConstellationLine(from, to, name) == [hip_from |-> from, hip_to |-> to, name |-> name]

\* Variant of PairUp: every ID is paired with the next one
RECURSIVE PairUp_Overlapping(_, _, _)
PairUp_Overlapping(hips, name, i) ==
    IF i + 1 > Len(hips)
    THEN <<>>
    ELSE <<ConstellationLine(hips[i], hips[i + 1], name)>>
            \o PairUp_Overlapping(hips, name, i + 1)

\* for i in range(0, len(hips) - 1, 2): ConstellationLine(hips[i], hips[i + 1], name)
RECURSIVE PairUp(_, _, _)
PairUp(hips, name, i) ==
    IF i + 1 > Len(hips)
    THEN <<>>
    ELSE <<ConstellationLine(hips[i], hips[i + 1], name)>> \o PairUp(hips, name, i + 2)

\* One line of the file: the segments it adds, or the ValueError of int()
ParseLine(parts) ==
    IF Len(parts) < 4
    THEN [ret |-> <<>>, raised |-> None]
    ELSE LET toks == SubSeq(parts, 3, Len(parts)) IN
         IF \E i \in 1..Len(toks) : IntOf(toks[i]) = None
         THEN [ret |-> <<>>,
               raised |-> Some([type |-> "ValueError", msg |-> "int", args |-> <<>>])]
         ELSE [ret |-> PairUp([i \in 1..Len(toks) |-> IntOf(toks[i])[1]], parts[1], 1),
               raised |-> None]

RECURSIVE ParseLines(_, _)
ParseLines(file, i) ==
    IF i > Len(file)
    THEN [ret |-> <<>>, raised |-> None]
    ELSE LET first == ParseLine(file[i]) IN
         IF first.raised # None
         THEN first
         ELSE LET rest == ParseLines(file, i + 1) IN
              IF rest.raised # None
              THEN rest
              ELSE [ret |-> first.ret \o rest.ret, raised |-> None]

\* load_constellation_lines(): the tuple of segments, or the exception
load_constellation_lines(file) == ParseLines(file, 1)

-----------------------------------------------------------------------------
(* Arithmetic of the weighted means                                        *)

\* 10^6 * sin(d degrees), d = 0..90, at index d + 1
SinTable ==
    << 0, 17452, 34899, 52336, 69756, 87156, 104528, 121869, 139173, 156434,
       173648, 190809, 207912, 224951, 241922, 258819, 275637, 292372, 309017, 325568,
       342020, 358368, 374607, 390731, 406737, 422618, 438371, 453990, 469472, 484810,
       500000, 515038, 529919, 544639, 559193, 573576, 587785, 601815, 615661, 629320,
       642788, 656059, 669131, 681998, 694658, 707107, 719340, 731354, 743145, 754710,
       766044, 777146, 788011, 798636, 809017, 819152, 829038, 838671, 848048, 857167,
       866025, 874620, 882948, 891007, 898794, 906308, 913545, 920505, 927184, 933580,
       939693, 945519, 951057, 956305, 961262, 965926, 970296, 974370, 978148, 981627,
       984808, 987688, 990268, 992546, 994522, 996195, 997564, 998630, 999391, 999848,
       1000000 >>

\* 10^6 * math.sin(math.radians(a)) for a whole number of degrees
Sin(a) ==
    LET d == a % 360 IN
    IF d <= 90 THEN SinTable[d + 1]
    ELSE IF d <= 180 THEN SinTable[180 - d + 1]
    ELSE IF d <= 270 THEN -SinTable[d - 180 + 1]
    ELSE -SinTable[360 - d + 1]

\* 10^6 * math.cos(math.radians(a))
Cos(a) == Sin(a + 90)

\* 10^8 * sin of t hundredths of a degree, 0 <= t <= 9000 (interpolated)
SinH(t) ==
    LET d == t \div 100
        f == t % 100
    IN  IF f = 0 THEN 100 * SinTable[d + 1]
        ELSE SinTable[d + 1] * (100 - f) + SinTable[d + 2] * f

CosH(t) == SinH(9000 - t)

\* a/b <= c/d for a, c >= 0 and b, d > 0, without forming the products
RECURSIVE FracLeq(_, _, _, _)
FracLeq(a, b, c, d) ==
    LET q1 == a \div b
        q2 == c \div d
        r1 == a % b
        r2 == c % d
    IN  IF q1 # q2 THEN q1 < q2
        ELSE IF r1 = 0 THEN TRUE
        ELSE IF r2 = 0 THEN FALSE
        ELSE FracLeq(d, r2, b, r1)

\* tan(t hundredths of a degree) <= s/c, for s >= 0, c >= 0, not both 0
TanLeq(t, s, c) ==
    IF t = 9000 THEN c = 0
    ELSE IF c = 0 THEN TRUE
    ELSE FracLeq(SinH(t), CosH(t), s, c)

\* The largest t in lo..hi with TanLeq(t, s, c), given TanLeq(lo, s, c)
RECURSIVE Bisect(_, _, _, _)
Bisect(lo, hi, s, c) ==
    IF lo = hi THEN lo
    ELSE LET mid == (lo + hi + 1) \div 2 IN
         IF TanLeq(mid, s, c) THEN Bisect(mid, hi, s, c) ELSE Bisect(lo, mid - 1, s, c)

\* atan(s/c) in hundredths of a degree, rounded down and rounded up
AtanFloor(s, c) == Bisect(0, 9000, s, c)
AtanCeil(s, c) ==
    LET t == AtanFloor(s, c) IN
    IF t = 9000 THEN t
    ELSE IF c # 0 /\ FracLeq(s, c, SinH(t), CosH(t)) THEN t ELSE t + 1

Abs(n) == IF n < 0 THEN -n ELSE n

\* math.degrees(math.atan2(s, c)) % 360 in hundredths of a degree, rounded down
Atan2Deg(s, c) ==
    IF s = 0 /\ c = 0 THEN 0
    ELSE IF s >= 0 /\ c > 0 THEN AtanFloor(s, c)
    ELSE IF s > 0 /\ c <= 0 THEN 18000 - AtanCeil(s, -c)
    ELSE IF s <= 0 /\ c < 0 THEN 18000 + AtanFloor(-s, -c)
    ELSE (36000 - AtanCeil(-s, c)) % 36000

\* Variant of RoundTenths: rounded up to the next tenth
RoundTenths_Up(n, d) == ((10 * n) + d - 1) \div d

\* round(n / d, 1) in tenths, for n/d given as a fraction with d > 0:
\* the nearest tenth, a tie going to the even one
RoundTenths(n, d) ==
    LET q == (10 * n) \div d
        r == (10 * n) % d
    IN  IF 2 * r < d THEN q
        ELSE IF 2 * r > d THEN q + 1
        ELSE IF q % 2 = 0 THEN q ELSE q + 1

RECURSIVE Gcd(_, _)
Gcd(a, b) == IF b = 0 THEN a ELSE Gcd(b, a % b)

Lcm(a, b) == (a \div Gcd(a, b)) * b

RECURSIVE LcmOf(_)
LcmOf(S) ==
    IF S = {} THEN 1
    ELSE LET x == CHOOSE y \in S : TRUE IN Lcm(x, LcmOf(S \ {x}))

RECURSIVE SumOver(_, _)
SumOver(S, f) ==
    IF S = {} THEN 0
    ELSE LET x == CHOOSE y \in S : TRUE IN f[x] + SumOver(S \ {x}, f)

-----------------------------------------------------------------------------
(* compute_sky_data                                                        *)

\* the 3.0 of weight = 1 / (magnitude + 3.0), in tenths
WeightOffset == 30

\* Variant of WeightDen: no offset
WeightDen_NoOffset(magnitude) == magnitude

\* the denominator of weight = 1.0 / (s.magnitude + 3.0), in tenths
WeightDen(magnitude) == magnitude + WeightOffset

\* The sign of the error floating point leaves in sin_sum when its terms
\* cancel exactly: the computed sum is a tiny negative number, or zero.
SinSumErrors == {-1, 0}

\* Variant of Bright: a strict comparison
Bright_Strict(row, limit) == row.magnitude < limit

\* bright = stars_df["magnitude"] <= limiting_magnitude
Bright(row, limit) == row.magnitude <= limit

\* dropna(subset=["ra_degrees", "dec_degrees"])
HasPosition(row) == row.ra_degrees # None /\ row.dec_degrees # None

\* stars_df after the magnitude filter and dropna
FilteredFrame(df, limit) ==
    SelectSeq(df, LAMBDA row : Bright(row, limit) /\ HasPosition(row))

StarRecord(row, altaz) ==
    [hip |-> row.hip, ra_deg |-> row.ra_degrees[1], dec_deg |-> row.dec_degrees[1],
     magnitude |-> row.magnitude, az_deg |-> altaz.az, alt_deg |-> altaz.alt]

\* Variant of AboveHorizon: no horizon test
AboveHorizon_Always(r) == TRUE

\* the horizon predicate r.alt_deg >= 0
AboveHorizon(r) == r.alt_deg >= 0

\* visible_hip_set = {r.hip for r in records if r.alt_deg >= 0}
VisibleHipSet(records) ==
    { records[i].hip : i \in { j \in 1..Len(records) : AboveHorizon(records[j]) } }

\* Variant of VisibleLines: one visible endpoint is enough
VisibleLines_Either(all_lines, visible_hip_set) ==
    SelectSeq(all_lines, LAMBDA line :
        line.hip_from \in visible_hip_set \/ line.hip_to \in visible_hip_set)

\* Variant of VisibleLines: the visible segments, last of the file first
RECURSIVE VisibleLines_Reversed(_, _)
VisibleLines_Reversed(all_lines, visible_hip_set) ==
    IF all_lines = <<>> THEN <<>>
    ELSE LET line == all_lines[1]
             rest == VisibleLines_Reversed(Tail(all_lines), visible_hip_set)
         IN  IF line.hip_from \in visible_hip_set /\ line.hip_to \in visible_hip_set
             THEN Append(rest, line)
             ELSE rest

\* Variant of VisibleLines: every segment of the file
VisibleLines_All(all_lines, visible_hip_set) == all_lines

\* the segments whose two endpoints are in visible_hip_set, in file order
VisibleLines(all_lines, visible_hip_set) ==
    SelectSeq(all_lines, LAMBDA line :
        line.hip_from \in visible_hip_set /\ line.hip_to \in visible_hip_set)

\* Variant of VisibleNames: the name of every visible segment, repeats kept
VisibleNames_NoDedup(visible_lines, i) ==
    [n \in 1..(Len(visible_lines) - i + 1) |-> visible_lines[n + i - 1].name]

\* tuple(dict.fromkeys(line.name for line in visible_lines))
RECURSIVE VisibleNames(_, _)
VisibleNames(visible_lines, i) ==
    IF i > Len(visible_lines) THEN <<>>
    ELSE LET rest == VisibleNames(visible_lines, i + 1)
             name == visible_lines[i].name
         IN  <<name>> \o SelectSeq(rest, LAMBDA n : n # name)

\* Variant of HipToRecord: no horizon test
HipToRecord_All(records) ==
    [h \in { records[i].hip : i \in 1..Len(records) } |->
        records[CHOOSE i \in 1..Len(records) : records[i].hip = h]]

\* Variant of HipToRecord: a star on the horizon is left out
HipToRecord_Strict(records) ==
    [h \in { records[i].hip : i \in { j \in 1..Len(records) : records[j].alt_deg > 0 } } |->
        records[CHOOSE i \in 1..Len(records) : records[i].hip = h /\ records[i].alt_deg > 0]]

\* hip_to_record = {r.hip: r for r in records if r.alt_deg >= 0}
HipToRecord(records) ==
    [h \in VisibleHipSet(records) |->
        records[CHOOSE i \in 1..Len(records) :
                    /\ records[i].hip = h
                    /\ AboveHorizon(records[i])
                    /\ \A j \in (i + 1)..Len(records) :
                          ~(records[j].hip = h /\ AboveHorizon(records[j]))]]

\* Variant of ConstellationStars: the endpoints of the segments whose two
\* endpoints are both in hip_to_record
ConstellationStars_VisibleOnly(name, all_lines, hip_to_record) ==
    LET mine == { i \in 1..Len(all_lines) :
                    /\ all_lines[i].name = name
                    /\ all_lines[i].hip_from \in DOMAIN hip_to_record
                    /\ all_lines[i].hip_to \in DOMAIN hip_to_record }
    IN  { all_lines[i].hip_from : i \in mine } \cup { all_lines[i].hip_to : i \in mine }

\* constellation_stars[name]: the endpoints, present in hip_to_record, of
\* every segment of the file that carries the name
ConstellationStars(name, all_lines, hip_to_record) ==
    LET mine == { i \in 1..Len(all_lines) : all_lines[i].name = name }
    IN  ({ all_lines[i].hip_from : i \in mine } \cup { all_lines[i].hip_to : i \in mine })
            \cap DOMAIN hip_to_record

\* One ConstellationPosition, or the ZeroDivisionError of a zero weight
\* denominator or a zero total weight.  az_deg and alt_deg are in tenths.
Position(name, hips, hip_to_record) ==
    LET den == [h \in hips |-> WeightDen(hip_to_record[h].magnitude)] IN
    IF \E h \in hips : den[h] = 0
    THEN [ret |-> None,
          raised |-> Some([type |-> "ZeroDivisionError", msg |-> "weight", args |-> <<>>])]
    ELSE LET l == LcmOf({ Abs(den[h]) : h \in hips })
             w == [h \in hips |-> l \div den[h]]
             total_w == SumOver(hips, w)
             sgn == IF total_w < 0 THEN -1 ELSE 1
             sin_sum == SumOver(hips, [h \in hips |-> w[h] * Sin(hip_to_record[h].az_deg)])
             cos_sum == SumOver(hips, [h \in hips |-> w[h] * Cos(hip_to_record[h].az_deg)])
             alt_sum == SumOver(hips, [h \in hips |-> w[h] * hip_to_record[h].alt_deg])
             cancelled == /\ sin_sum = 0
                          /\ \E h \in hips : Sin(hip_to_record[h].az_deg) # 0
             \* math.degrees(math.atan2(...)) % 360 in hundredths: a tiny
             \* negative angle becomes 360.0
             az_mean == IF cancelled /\ sin_sum_err < 0 /\ sgn * cos_sum > 0
                        THEN 36000
                        ELSE Atan2Deg(sgn * sin_sum, sgn * cos_sum)
         IN  IF total_w = 0
             THEN [ret |-> None,
                   raised |-> Some([type |-> "ZeroDivisionError", msg |-> "total_w", args |-> <<>>])]
             ELSE [ret |-> Some([name |-> name,
                                 az_deg |-> (az_mean + 5) \div 10,
                                 alt_deg |-> RoundTenths(sgn * alt_sum, sgn * total_w * 100)]),
                   raised |-> None]

RECURSIVE Positions(_, _, _, _)
Positions(visible_names, all_lines, hip_to_record, i) ==
    IF i > Len(visible_names)
    THEN [ret |-> <<>>, raised |-> None]
    ELSE LET name == visible_names[i]
             hips == ConstellationStars(name, all_lines, hip_to_record)
         IN  IF hips = {}
             THEN Positions(visible_names, all_lines, hip_to_record, i + 1)
             ELSE LET first == Position(name, hips, hip_to_record) IN
                  IF first.raised # None
                  THEN [ret |-> <<>>, raised |-> first.raised]
                  ELSE LET rest == Positions(visible_names, all_lines, hip_to_record, i + 1) IN
                       IF rest.raised # None
                       THEN rest
                       ELSE [ret |-> first.ret \o rest.ret, raised |-> None]

\* Variant of compute_constellation_positions: a position for every
\* constellation of the file with a star above the horizon
compute_constellation_positions_AllNames(records, visible_names, file) ==
    LET loaded == load_constellation_lines(file) IN
    IF loaded.raised # None
    THEN [ret |-> <<>>, raised |-> loaded.raised]
    ELSE Positions(VisibleNames(loaded.ret, 1), loaded.ret, HipToRecord(records), 1)

\* _compute_constellation_positions(records, visible_names); the file is
\* read again here.
compute_constellation_positions(records, visible_names, file) ==
    LET loaded == load_constellation_lines(file) IN
    IF loaded.raised # None
    THEN [ret |-> <<>>, raised |-> loaded.raised]
    ELSE Positions(visible_names, loaded.ret, HipToRecord(records), 1)

SkyData(ctx, records, visible_lines, limit, positions) ==
    [context |-> ctx, stars |-> records, constellation_lines |-> visible_lines,
     limiting_magnitude |-> limit, constellation_positions |-> positions]

\* The body of compute_sky_data once the ephemeris has answered `sky`
\* (alt/az per star of the filtered frame); `file` is what the read of
\* line 191 finds on disk and `again` what the read of line 219 finds.
SkyOf(ctx, limit, df, file, again, sky) ==
    LET frame == FilteredFrame(df, limit)
        records == [i \in 1..Len(frame) |-> StarRecord(frame[i], sky[frame[i].hip])]
        loaded == load_constellation_lines(file)
    IN  IF loaded.raised # None
        THEN [ret |-> None, raised |-> loaded.raised]
        ELSE LET visible_lines == VisibleLines(loaded.ret, VisibleHipSet(records))
                 visible_names == VisibleNames(visible_lines, 1)
                 positions == compute_constellation_positions(records, visible_names, again)
             IN  IF positions.raised # None
                 THEN [ret |-> None, raised |-> positions.raised]
                 ELSE [ret |-> Some(SkyData(ctx, records, visible_lines, limit, positions.ret)),
                       raised |-> None]

\* Variant of CatalogAfter: the filters are applied to the catalog itself
CatalogAfter_InPlace(df, limit) == FilteredFrame(df, limit)

\* _stars_df after a call: the call filters a copy (_stars_df.copy()) and
\* leaves the catalog as it was
CatalogAfter(df, limit) == df

\* What the reads of the file in one call return: load_constellation_lines
\* is called by compute_sky_data and, unless that raised, once more by
\* _compute_constellation_positions
FabReads(file, again) ==
    IF load_constellation_lines(file).raised # None
    THEN <<file>>
    ELSE <<file, again>>

\* compute_sky_data(context, limiting_magnitude), called by run
compute_sky_data ==
    /\ pc = "compute"
    /\ LET ctx == context[1]
           key == FrameKey(ctx)
           frame == FilteredFrame(stars_df, limiting_magnitude)
           hips == { frame[i].hip : i \in 1..Len(frame) }
       IN  \E sky \in [hips -> AltAz \cup { e.altaz : e \in ephem }],
              again \in {fab} \cup fab_updates :
            /\ \A h \in hips : IF Answered(key, h) = {}
                                THEN sky[h] \in AltAz
                                ELSE \A e \in Answered(key, h) : e.altaz = sky[h]
            /\ ephem' = ephem \cup { [key |-> key, hip |-> h, altaz |-> sky[h]] : h \in hips }
            /\ fab' = again
            /\ LET r == SkyOf(ctx, limiting_magnitude, stars_df, fab, again, sky) IN
               /\ sky_log' = Append(sky_log, [context |-> ctx,
                                               limiting_magnitude |-> limiting_magnitude,
                                               outcome |-> r,
                                               reads |-> FabReads(fab, again)])
               /\ IF r.raised # None
                  THEN /\ Raise(r.raised[1])
                       /\ UNCHANGED sky_data
                  ELSE /\ sky_data' = r.ret
                       /\ pc' = "returned"
                       /\ UNCHANGED exc
    /\ stars_df' = CatalogAfter(stars_df, limiting_magnitude)
    /\ UNCHANGED <<env_key, address, when, lang, limiting_magnitude, calls, lat,
                   lng, address_display, tz_str, context, fab_updates, sin_sum_err, session, app>>

-----------------------------------------------------------------------------
(* The Streamlit app (src/src/thatnightsky/app.py): one session.  The      *)
(* whole script runs again on every widget event and on st.rerun(); one    *)
(* step of the model is one script run.                                    *)

\* _MAX_NARRATIVES_PER_SESSION
MAX_NARRATIVES_PER_SESSION == 3

\* The number of submissions with an address a session is followed through
MaxSubmits == 5

\* st.session_state after the initialization block of the first script run
SessionDefaults ==
    [lang |-> None, default_input |-> FALSE, sky_data |-> None, narrative |-> None,
     error_msg |-> None, privacy_agreed |-> FALSE, narrative_count |-> 0,
     input_open |-> TRUE, show_placeholder |-> TRUE, save_triggered |-> FALSE]

\* The script runner before the first script run: no widget is on the page
AppStart ==
    [rendered |-> {}, rerun |-> FALSE, clicked |-> "none", run_outcome |-> "none",
     run_calls |-> 0, narrative_calls |-> 0, submits |-> 0]

\* What navigator.language gives once the browser has answered
BrowserLangs == {Some("ko"), Some("en")}

\* The text of the address field at a click on the submit button
AppAddresses == {"", "Busan", "Paris"}

\* How run(QueryInput(...), lang) ends: a SkyData, GeocodingError, or any
\* other exception that leaves run
RunOutcomes == {"ok", "GeocodingError", "other"}

\* How generate_night_description ends
NarrativeOutcomes == {"ok", "raised"}

\* if "lang" not in st.session_state: ... streamlit_js_eval
DetectLang(s, js) ==
    IF s.lang = None /\ js # None THEN [s EXCEPT !.lang = js] ELSE s

\* if "default_input" not in st.session_state and "lang" in st.session_state
ChooseDefault(s) ==
    IF ~s.default_input /\ s.lang # None THEN [s EXCEPT !.default_input = TRUE] ELSE s

\* Variant of PrivacyGate: the notice does not block
PrivacyGate_Open(s) == FALSE

\* if not st.session_state.privacy_agreed: ... st.stop()
PrivacyGate(s) == ~s.privacy_agreed

\* Variant of LimitReached: one narrative more is let through
LimitReached_Late(count) == count > MAX_NARRATIVES_PER_SESSION

\* st.session_state.narrative_count >= _MAX_NARRATIVES_PER_SESSION
LimitReached(count) == count >= MAX_NARRATIVES_PER_SESSION

\* Variant of OnGeocodingError: the chart is dropped as well
OnGeocodingError_DropsChart(s) ==
    [s EXCEPT !.error_msg = Some("error_address"), !.sky_data = None]

\* except GeocodingError as e: the assignments before st.rerun()
OnGeocodingError(s) == [s EXCEPT !.error_msg = Some("error_address")]

\* if st.session_state.sky_data is not None: if save_triggered: ...
SaveTrigger(s) ==
    IF s.sky_data # None /\ s.save_triggered THEN [s EXCEPT !.save_triggered = FALSE] ELSE s

\* What a script run leaves: the session state, the buttons on the page,
\* whether it ended in st.rerun(), how run ended, and the calls it made
RunResult(s, rendered, rerun, run_outcome, run_called, narrative_called) ==
    [session |-> s, rendered |-> rendered, rerun |-> rerun, run_outcome |-> run_outcome,
     run_called |-> run_called, narrative_called |-> narrative_called]

\* The form submission handler, for a click on the submit button with a
\* non-empty address
SubmissionHandler(s, addr, run_out, gen_out) ==
    LET cleared == [s EXCEPT !.error_msg = None, !.narrative = None,
                             !.show_placeholder = FALSE]
    IN  CASE run_out = "GeocodingError" ->
                RunResult(OnGeocodingError(cleared), {}, TRUE, run_out, 1, 0)
          [] run_out = "other" ->
                RunResult(cleared, {"submit_btn"}, FALSE, run_out, 1, 0)
          [] OTHER ->
                LET charted == [cleared EXCEPT !.sky_data = Some(addr)] IN
                IF LimitReached(charted.narrative_count)
                THEN RunResult([charted EXCEPT !.narrative = Some("narrative_limit"),
                                               !.input_open = FALSE],
                               {}, TRUE, run_out, 1, 0)
                ELSE IF gen_out = "ok"
                THEN RunResult([charted EXCEPT !.narrative = Some("generated"),
                                               !.narrative_count = @ + 1,
                                               !.input_open = FALSE],
                               {}, TRUE, run_out, 1, 1)
                ELSE RunResult([charted EXCEPT !.narrative = Some("narrative_fallback"),
                                               !.input_open = FALSE],
                               {}, TRUE, run_out, 1, 1)

\* One run of the script from its first line, for the widget event that
\* caused it
ScriptRun(s0, clicked, js, addr, run_out, gen_out) ==
    LET s1 == ChooseDefault(DetectLang(s0, js)) IN
    IF PrivacyGate(s1)
    THEN IF clicked = "privacy_confirm"
         THEN RunResult([s1 EXCEPT !.privacy_agreed = TRUE], {}, TRUE, "none", 0, 0)
         ELSE RunResult(s1, {"privacy_confirm"}, FALSE, "none", 0, 0)
    ELSE LET s2 == SaveTrigger(s1) IN
         IF ~s2.default_input
         THEN RunResult(s2, {}, FALSE, "none", 0, 0)
         ELSE IF ~s2.input_open
         THEN IF clicked = "toggle_open"
              THEN RunResult([s2 EXCEPT !.input_open = TRUE], {}, TRUE, "none", 0, 0)
              ELSE IF clicked = "save_btn" /\ s2.sky_data # None
              THEN RunResult([s2 EXCEPT !.save_triggered = TRUE], {}, TRUE, "none", 0, 0)
              ELSE RunResult(s2, IF s2.sky_data # None
                                 THEN {"toggle_open", "save_btn"}
                                 ELSE {"toggle_open"},
                             FALSE, "none", 0, 0)
         ELSE IF clicked = "submit_btn" /\ addr # ""
         THEN SubmissionHandler(s2, addr, run_out, gen_out)
         ELSE RunResult(s2, {"submit_btn"}, FALSE, "none", 0, 0)

\* The events that start a script run: the page load, st.rerun(), the
\* answer of the language detection, a click on a button of the page
Triggers ==
    IF app.rerun THEN {"rerun"}
    ELSE IF app.clicked = "none" THEN {"load"}
    ELSE app.rendered \cup (IF session.lang = None THEN {"js_eval"} ELSE {})

\* One script run of the session
script_run ==
    /\ \E clicked \in Triggers, addr \in AppAddresses,
          run_out \in RunOutcomes, gen_out \in NarrativeOutcomes,
          js \in (IF session.lang = None /\ app.clicked # "none"
                  THEN BrowserLangs \cup {None} ELSE {None}) :
          /\ clicked = "js_eval" => js # None
          /\ (clicked = "submit_btn" /\ addr # "") => app.submits < MaxSubmits
          /\ LET r == ScriptRun(session, clicked, js, addr, run_out, gen_out) IN
             /\ session' = r.session
             /\ app' = [rendered |-> r.rendered, rerun |-> r.rerun, clicked |-> clicked,
                        run_outcome |-> r.run_outcome,
                        run_calls |-> app.run_calls + r.run_called,
                        narrative_calls |-> app.narrative_calls + r.narrative_called,
                        submits |-> app.submits + r.run_called]
    /\ UNCHANGED <<pc, env_key, address, when, lang, limiting_magnitude, calls, lat,
                   lng, address_display, tz_str, exc, context, sky_data, stars_df,
                   fab, fab_updates, ephem, sky_log, sin_sum_err>>

-----------------------------------------------------------------------------
(* Specifications                                                          *)

\* The catalogs and files of the query specification
QueryCatalogs ==
    { <<CatalogRow(1, 10, TRUE), CatalogRow(2, 60, TRUE), CatalogRow(3, 70, TRUE)>> }

QueryFabFiles == { << <<"Ori", "2", "1", "2", "2", "3">>, <<"UMa", "1", "3", "4">> >> }

\* A process that has loaded its catalog and has not been queried yet
Init ==
    /\ pc = "idle"
    /\ env_key \in BOOLEAN
    /\ address = ""
    /\ when = ""
    /\ lang = "en"
    /\ limiting_magnitude = 65
    /\ calls = <<>>
    /\ lat = None
    /\ lng = None
    /\ address_display = ""
    /\ tz_str = None
    /\ exc = None
    /\ context = None
    /\ sky_data = None
    /\ stars_df \in QueryCatalogs
    /\ fab \in QueryFabFiles
    /\ fab_updates = {}
    /\ ephem = {}
    /\ sky_log = <<>>
    /\ sin_sum_err \in SinSumErrors
    /\ session = SessionDefaults
    /\ app = AppStart

Next ==
    \/ run
    \/ vworld_road
    \/ vworld_parcel
    \/ nominatim
    \/ observer_frame
    \/ compute_sky_data

Spec == Init /\ [][Next]_vars

\* Observer frames compute_sky_data is called with directly
SkyContexts ==
    { ObserverContext(35, 129, -13656060, "nominatim: Gaya-dong, Busan, South Korea"),
      ObserverContext(41, -74, 261600, "vworld: New York") }

\* The observer frame of a single call
FirstContexts == { c \in SkyContexts : c.lat = 35 }

\* compute_sky_data on its own: any catalog, any file, any limit
InitSky ==
    /\ pc = "compute"
    /\ env_key = FALSE
    /\ address = ""
    /\ when = ""
    /\ lang = "en"
    /\ limiting_magnitude \in LimitingMagnitudes
    /\ calls = <<>>
    /\ lat = None
    /\ lng = None
    /\ address_display = ""
    /\ tz_str = None
    /\ exc = None
    /\ context \in { Some(c) : c \in FirstContexts }
    /\ sky_data = None
    /\ stars_df \in Catalogs
    /\ fab \in FabFiles
    /\ fab_updates = {}
    /\ ephem = {}
    /\ sky_log = <<>>
    /\ sin_sum_err \in SinSumErrors
    /\ session = SessionDefaults
    /\ app = AppStart

NextSky == compute_sky_data

SpecSky == InitSky /\ [][NextSky]_vars

\* The number of calls of compute_sky_data a process is followed through
MaxCalls == 3

\* compute_sky_data is entered again, with any observer frame and limit
call_compute_sky_data ==
    /\ pc \in {"returned", "raised"}
    /\ Len(sky_log) < MaxCalls
    /\ \E c \in SkyContexts, l \in LimitingMagnitudes :
          /\ context' = Some(c)
          /\ limiting_magnitude' = l
    /\ pc' = "compute"
    /\ sky_data' = None
    /\ exc' = None
    /\ UNCHANGED <<env_key, address, when, lang, calls, lat, lng, address_display,
                   tz_str, stars_df, fab, fab_updates, ephem, sky_log, sin_sum_err, session, app>>

\* A process that calls compute_sky_data several times
InitCalls ==
    /\ pc = "compute"
    /\ env_key = FALSE
    /\ address = ""
    /\ when = ""
    /\ lang = "en"
    /\ limiting_magnitude \in LimitingMagnitudes
    /\ calls = <<>>
    /\ lat = None
    /\ lng = None
    /\ address_display = ""
    /\ tz_str = None
    /\ exc = None
    /\ context \in { Some(c) : c \in SkyContexts }
    /\ sky_data = None
    /\ stars_df \in QueryCatalogs
    /\ fab \in QueryFabFiles
    /\ fab_updates = {}
    /\ ephem = {}
    /\ sky_log = <<>>
    /\ sin_sum_err \in SinSumErrors
    /\ session = SessionDefaults
    /\ app = AppStart

NextCalls ==
    \/ compute_sky_data
    \/ call_compute_sky_data

SpecCalls == InitCalls /\ [][NextCalls]_vars

\* Two equally bright stars joined by one segment, the rest of the catalog
\* without a position
PairCatalogs ==
    { df \in Catalogs :
        /\ df[1].magnitude = df[2].magnitude
        /\ HasPosition(df[1])
        /\ HasPosition(df[2])
        /\ \A h \in Hips : h > 2 => ~HasPosition(df[h]) }

PairFabFiles == { << <<"Ori", "1", "1", "2">> >> }

\* The angles d of a pair of azimuths 360 - d and d
HalfSpreads == 1..89

\* compute_sky_data on a pair of stars whose azimuths are 360 - d and d
InitPair ==
    /\ pc = "compute"
    /\ env_key = FALSE
    /\ address = ""
    /\ when = ""
    /\ lang = "en"
    /\ limiting_magnitude = 65
    /\ calls = <<>>
    /\ lat = None
    /\ lng = None
    /\ address_display = ""
    /\ tz_str = None
    /\ exc = None
    /\ context \in { Some(c) : c \in FirstContexts }
    /\ sky_data = None
    /\ stars_df \in PairCatalogs
    /\ fab \in PairFabFiles
    /\ fab_updates = {}
    /\ \E d \in HalfSpreads, a \in {0, 4004} :
          ephem = { [key |-> FrameKey(context[1]), hip |-> 1,
                     altaz |-> [alt |-> 4004, az |-> 360 - d]],
                    [key |-> FrameKey(context[1]), hip |-> 2,
                     altaz |-> [alt |-> a, az |-> d]] }
    /\ sky_log = <<>>
    /\ sin_sum_err \in SinSumErrors
    /\ session = SessionDefaults
    /\ app = AppStart

NextPair == compute_sky_data

SpecPair == InitPair /\ [][NextPair]_vars

\* The file a writer puts in place of resources/constellationship.fab
UpdatedFabFiles == { << <<"UMa", "1", "1", "2">> >> }

\* A process whose segment file is replaced on disk while it serves calls
InitReload ==
    /\ pc = "compute"
    /\ env_key = FALSE
    /\ address = ""
    /\ when = ""
    /\ lang = "en"
    /\ limiting_magnitude = 65
    /\ calls = <<>>
    /\ lat = None
    /\ lng = None
    /\ address_display = ""
    /\ tz_str = None
    /\ exc = None
    /\ context \in { Some(c) : c \in FirstContexts }
    /\ sky_data = None
    /\ stars_df \in QueryCatalogs
    /\ fab \in QueryFabFiles
    /\ fab_updates = UpdatedFabFiles
    /\ ephem = {}
    /\ sky_log = <<>>
    /\ sin_sum_err \in SinSumErrors
    /\ session = SessionDefaults
    /\ app = AppStart

NextReload ==
    \/ compute_sky_data
    \/ call_compute_sky_data

SpecReload == InitReload /\ [][NextReload]_vars

\* The number of records of a segment file given to the loader
MaxRecords == 2

\* Records of a segment file: blank, with too few fields, with one pair of
\* IDs, with several pairs, with an unpaired trailing ID, and with a token
\* that is not an integer
LoadRecords ==
    { <<>>,
      <<"Ori">>,
      <<"Ori", "1", "1">>,
      <<"Ori", "1", "1", "2">>,
      <<"Cyg", "2", "1", "2", "3">>,
      <<"UMa", "2", "1", "2", "2", "3">>,
      <<"Lyr", "1", "2", "x">>,
      <<"Lyr", "2", "1", "2", "x", "2">> }

LoadFabFiles == UNION { [1..n -> LoadRecords] : n \in 1..MaxRecords }

\* compute_sky_data over the files the loader may be given
InitLoad ==
    /\ pc = "compute"
    /\ env_key = FALSE
    /\ address = ""
    /\ when = ""
    /\ lang = "en"
    /\ limiting_magnitude = 65
    /\ calls = <<>>
    /\ lat = None
    /\ lng = None
    /\ address_display = ""
    /\ tz_str = None
    /\ exc = None
    /\ context \in { Some(c) : c \in FirstContexts }
    /\ sky_data = None
    /\ stars_df \in QueryCatalogs
    /\ fab \in LoadFabFiles
    /\ fab_updates = {}
    /\ ephem = {}
    /\ sky_log = <<>>
    /\ sin_sum_err \in SinSumErrors
    /\ session = SessionDefaults
    /\ app = AppStart

NextLoad == compute_sky_data

SpecLoad == InitLoad /\ [][NextLoad]_vars

\* The app's session: the engine is at rest, every script run is a step
InitApp ==
    /\ pc = "idle"
    /\ env_key = FALSE
    /\ address = ""
    /\ when = ""
    /\ lang = "en"
    /\ limiting_magnitude = 65
    /\ calls = <<>>
    /\ lat = None
    /\ lng = None
    /\ address_display = ""
    /\ tz_str = None
    /\ exc = None
    /\ context = None
    /\ sky_data = None
    /\ stars_df = <<>>
    /\ fab = <<>>
    /\ fab_updates = {}
    /\ ephem = {}
    /\ sky_log = <<>>
    /\ sin_sum_err = 0
    /\ session = SessionDefaults
    /\ app = AppStart

NextApp == script_run

SpecApp == InitApp /\ [][NextApp]_vars

-----------------------------------------------------------------------------
(* Properties of the address resolver and the observer frame (Spec)        *)

Last(seq) == seq[Len(seq)]

CallIndexes == 1..Len(calls)

\* geocode_address is past its geocoding phase
GeocodingOver == pc \in {"frame", "compute", "returned", "raised"}

RegionalFailures == {"ERROR", "HTTP_ERROR", "TIMEOUT", "MALFORMED"}
GlobalFailures == {"HTTP_ERROR", "TIMEOUT", "MALFORMED"}

RegionalMatched == \E i \in CallIndexes : calls[i].provider = "vworld" /\ calls[i].ret # None

\* C1: with the regional path taken, every failure of a regional exchange
\* (provider-reported error, HTTP error status, timeout, malformed
\* response) is swallowed: no exception leaves the call at that exchange,
\* the next request goes to the global provider, and a global match is
\* what geocode_address continues with.
C1_RegionalFailureFallsThrough ==
    \A i \in CallIndexes :
        (calls[i].provider = "vworld" /\ calls[i].outcome \in RegionalFailures) =>
            /\ ~(pc = "raised" /\ i = Len(calls))
            /\ i < Len(calls) => calls[i + 1].provider = "nominatim"
            /\ (i < Len(calls) /\ calls[i + 1].ret # None) =>
                  /\ lat = Some(calls[i + 1].ret[1].lat)
                  /\ lng = Some(calls[i + 1].ret[1].lng)
                  /\ address_display = calls[i + 1].ret[1].display_name

\* C2: the requests of one call form a fixed sequence without retries:
\* ROAD can only be the first request, PARCEL only the second and only
\* after a ROAD that answered NOT_FOUND, the global request only the last;
\* so at most two regional requests and one global request are issued.
C2_FixedCallSequence ==
    /\ \A i \in CallIndexes :
        /\ calls[i].type = "ROAD" => i = 1
        /\ calls[i].type = "PARCEL" =>
              i = 2 /\ calls[1].type = "ROAD" /\ calls[1].outcome = "NOT_FOUND"
        /\ calls[i].provider = "nominatim" => i = Len(calls)
    /\ Cardinality({ i \in CallIndexes : calls[i].provider = "vworld" }) <= 2
    /\ Cardinality({ i \in CallIndexes : calls[i].provider = "nominatim" }) <= 1

\* C2 witness: a call that issued ROAD, PARCEL and the global request
C2_Witness ==
    /\ pc = "returned"
    /\ Len(calls) = 3
    /\ calls[2].type = "PARCEL"
    /\ calls[3].provider = "nominatim"

\* C3: a regional match (at ROAD or at PARCEL) is used and ends the
\* resolution: it is the last request of the call (the global provider is
\* not queried), the coordinates are its point and address_display is its
\* refined text, in the locals and in the ObserverContext built from them.
C3_RegionalMatchIsUsed ==
    \A i \in CallIndexes :
        (calls[i].provider = "vworld" /\ calls[i].ret # None) =>
            LET data == calls[i].ret[1] IN
            /\ i = Len(calls)
            /\ lat = Some(data.point.y)
            /\ lng = Some(data.point.x)
            /\ address_display = data.refined
            /\ context # None =>
                  /\ context[1].lat = data.point.y
                  /\ context[1].lng = data.point.x
                  /\ context[1].address_display = data.refined
            /\ sky_data # None => sky_data[1].context = context[1]

\* C3 witness: a query answered from a PARCEL match
C3_Witness ==
    /\ pc = "returned"
    /\ Len(calls) = 2
    /\ calls[2].type = "PARCEL"
    /\ calls[2].ret # None

\* C4: the regional provider is queried only with lang "ko" and the key
\* configured; once the geocoding phase is over without a regional match,
\* the global provider has been queried with the raw address; a global
\* match gives the coordinates and address_display (its display name).
C4_GlobalQueriedWithRawAddress ==
    /\ (\E i \in CallIndexes : calls[i].provider = "vworld") => (lang = "ko" /\ env_key)
    /\ (GeocodingOver /\ ~RegionalMatched) =>
          \E i \in CallIndexes : calls[i].provider = "nominatim" /\ calls[i].q = address
    /\ \A i \in CallIndexes :
          (calls[i].provider = "nominatim" /\ calls[i].ret # None) =>
              /\ lat = Some(calls[i].ret[1].lat)
              /\ lng = Some(calls[i].ret[1].lng)
              /\ address_display = calls[i].ret[1].display_name

\* C5: when the global provider answers with an empty result, the query
\* ends with GeocodingError "Address not found" carrying the original
\* address; no timezone lookup was made, no ObserverContext was built and
\* no sky was computed.
C5_AddressNotFound ==
    \A i \in CallIndexes :
        (calls[i].provider = "nominatim" /\ calls[i].outcome = "EMPTY") =>
            /\ pc = "raised"
            /\ exc = Some([type |-> "GeocodingError", msg |-> "Address not found",
                           args |-> <<address>>])
            /\ tz_str = None
            /\ context = None
            /\ sky_data = None
            /\ ephem = {}

\* C5 witness: both regional precisions answered not-found, then the
\* global provider found nothing
C5_Witness ==
    /\ Len(calls) = 3
    /\ calls[1].outcome = "NOT_FOUND"
    /\ calls[2].outcome = "NOT_FOUND"
    /\ calls[3].outcome = "EMPTY"
    /\ pc = "raised"

\* C6: a failure of a provider exchange that ends the query ends it with
\* the typed error GeocodingError; stated here for the global provider,
\* whose transport failure must end the query with the typed error (the
\* regional exchanges are the subject of C1).
C6_GlobalFailureIsTyped ==
    (pc = "raised" /\ calls # <<>> /\ Last(calls).provider = "nominatim"
        /\ Last(calls).outcome \in GlobalFailures) =>
            exc[1].type = "GeocodingError"

\* C7: when the timezone lookup returns no zone for the resolved
\* coordinates, the query ends with a GeocodingError ("Timezone not
\* found"), the exception type of address-not-found, and no
\* ObserverContext is built.
C7_TimezoneNotFoundIsTyped ==
    tz_str = Some(None) =>
        /\ pc = "raised"
        /\ exc # None
        /\ exc[1].type = "GeocodingError"
        /\ exc[1].msg = "Timezone not found"
        /\ context = None
        /\ sky_data = None

\* C7 witness: coordinates were resolved and the lookup returned None
C7_Witness ==
    /\ lat # None
    /\ lng # None
    /\ tz_str = Some(None)

\* C8: once the timezone of the coordinates has resolved, a well-formed
\* local timestamp always yields an ObserverContext, also when the local
\* time is ambiguous or does not exist because of a DST transition.
C8_DstTimeIsResolved ==
    (tz_str # None /\ tz_str[1] # None /\ strptime(when) # None) => context # None

-----------------------------------------------------------------------------
(* Properties of compute_sky_data (SpecSky)                                *)

HipsOf(records) == [i \in 1..Len(records) |-> records[i].hip]

\* C9 as stated: SkyData.stars are exactly the catalog stars with
\* magnitude <= limiting_magnitude, each once, in catalog order, and
\* SkyData.limiting_magnitude is the limit passed in.
C9_StarsAreMagnitudeFiltered ==
    sky_data # None =>
        /\ HipsOf(sky_data[1].stars)
              = HipsOf(SelectSeq(stars_df, LAMBDA row : row.magnitude <= limiting_magnitude))
        /\ sky_data[1].limiting_magnitude = limiting_magnitude

\* C9 amended: SkyData.stars are exactly the catalog stars with
\* magnitude <= limiting_magnitude whose right ascension and declination
\* are both present, each once, in catalog order, with the catalog's
\* magnitude, and SkyData.limiting_magnitude is the limit passed in.
C9_StarsAreFilteredWithPosition ==
    sky_data # None =>
        LET kept == SelectSeq(stars_df, LAMBDA row :
                        /\ row.magnitude <= limiting_magnitude
                        /\ row.ra_degrees # None
                        /\ row.dec_degrees # None)
        IN  /\ HipsOf(sky_data[1].stars) = HipsOf(kept)
            /\ \A i \in 1..Len(kept) : sky_data[1].stars[i].magnitude = kept[i].magnitude
            /\ sky_data[1].limiting_magnitude = limiting_magnitude

\* C9 witness: magnitudes [1.0, 6.0, 7.0] with limit 6.5 give the first two
C9_Witness ==
    /\ sky_data # None
    /\ limiting_magnitude = 65
    /\ [i \in 1..3 |-> stars_df[i].magnitude] = <<10, 60, 70>>
    /\ \A i \in 1..3 : stars_df[i].ra_degrees # None
    /\ HipsOf(sky_data[1].stars) = <<1, 2>>

\* The segments of the file, as compute_sky_data loads them
LoadedLines == load_constellation_lines(fab).ret

\* The stars whose positions are averaged for a constellation
Aggregated(name) == ConstellationStars(name, LoadedLines, HipToRecord(sky_data[1].stars))

\* C10: the horizon predicate is not applied to the plotted stars: every
\* catalog star with magnitude <= limiting_magnitude (and a position) is
\* in SkyData.stars whatever its altitude, while a star with altitude < 0
\* is an endpoint of no visible segment and a member of no aggregate.
C10_HorizonNotAppliedToStars ==
    sky_data # None =>
        /\ \A i \in 1..Len(stars_df) :
              (stars_df[i].magnitude <= limiting_magnitude /\ stars_df[i].ra_degrees # None) =>
                  \E j \in 1..Len(sky_data[1].stars) : sky_data[1].stars[j].hip = stars_df[i].hip
        /\ \A j \in 1..Len(sky_data[1].stars) :
              sky_data[1].stars[j].alt_deg < 0 =>
                  LET h == sky_data[1].stars[j].hip IN
                  /\ \A k \in 1..Len(sky_data[1].constellation_lines) :
                        /\ sky_data[1].constellation_lines[k].hip_from # h
                        /\ sky_data[1].constellation_lines[k].hip_to # h
                  /\ \A k \in 1..Len(sky_data[1].constellation_positions) :
                        h \notin Aggregated(sky_data[1].constellation_positions[k].name)

\* C10 witness: a plotted star below the horizon that the file joins to a
\* star of a visible constellation
C10_Witness ==
    /\ sky_data # None
    /\ \E j \in 1..Len(sky_data[1].stars) :
          /\ sky_data[1].stars[j].alt_deg < 0
          /\ \E k \in 1..Len(LoadedLines) :
                /\ sky_data[1].stars[j].hip \in {LoadedLines[k].hip_from, LoadedLines[k].hip_to}
                /\ \E n \in 1..Len(sky_data[1].constellation_positions) :
                      sky_data[1].constellation_positions[n].name = LoadedLines[k].name

-----------------------------------------------------------------------------
(* Properties of the constellation assembler (SpecSky)                     *)

\* The stars of the result that are at or above the horizon
UpHips ==
    { sky_data[1].stars[j].hip :
        j \in { i \in 1..Len(sky_data[1].stars) : sky_data[1].stars[i].alt_deg >= 0 } }

\* C11: a segment of the file is in SkyData.constellation_lines if and only
\* if both its endpoints are stars of the result with altitude >= 0; so
\* every visible segment has both endpoints at altitude >= 0.
C11_SegmentsOfVisibleEndpoints ==
    sky_data # None =>
        LET lines == sky_data[1].constellation_lines IN
        /\ \A k \in 1..Len(LoadedLines) :
              (\E n \in 1..Len(lines) : lines[n] = LoadedLines[k])
                  <=> (LoadedLines[k].hip_from \in UpHips /\ LoadedLines[k].hip_to \in UpHips)
        /\ \A n \in 1..Len(lines) :
              \A j \in 1..Len(sky_data[1].stars) :
                  sky_data[1].stars[j].hip \in {lines[n].hip_from, lines[n].hip_to}
                      => sky_data[1].stars[j].alt_deg >= 0

\* C11 witness: one segment is visible while another, with one endpoint
\* above the horizon and the other below, is not
C11_Witness ==
    /\ sky_data # None
    /\ Len(sky_data[1].constellation_lines) > 0
    /\ \E k \in 1..Len(LoadedLines) :
          /\ LoadedLines[k].hip_from \in UpHips
          /\ \E j \in 1..Len(sky_data[1].stars) :
                /\ sky_data[1].stars[j].hip = LoadedLines[k].hip_to
                /\ sky_data[1].stars[j].alt_deg < 0
          /\ \A n \in 1..Len(sky_data[1].constellation_lines) :
                sky_data[1].constellation_lines[n] # LoadedLines[k]

\* The record of a star of the result
RecordOf(h) ==
    sky_data[1].stars[CHOOSE j \in 1..Len(sky_data[1].stars) : sky_data[1].stars[j].hip = h]

\* The altitudes (hundredths) of the stars averaged for a constellation
AggregatedAlts(name) == { RecordOf(h).alt_deg : h \in Aggregated(name) }

\* C12: every ConstellationPosition has a mean altitude in [0, 90]: it is
\* the one-decimal rounding of a weighted average of altitudes >= 0, which
\* lies between the smallest and the largest contributing altitude.
C12_MeanAltitudeInRange ==
    sky_data # None =>
        \A n \in 1..Len(sky_data[1].constellation_positions) :
            LET p == sky_data[1].constellation_positions[n]
                alts == AggregatedAlts(p.name)
            IN  /\ p.alt_deg >= 0
                /\ p.alt_deg <= 900
                /\ alts # {}
                /\ \A a \in alts : a >= 0
                /\ \E lo \in alts : \A a \in alts : lo <= a /\ lo - 5 <= 10 * p.alt_deg
                /\ \E hi \in alts : \A a \in alts : a <= hi /\ 10 * p.alt_deg <= hi + 5

\* C12 witness: stars at altitudes 0 and 40.04 are averaged, and the mean
\* lies strictly between them
C12_Witness ==
    /\ sky_data # None
    /\ \E n \in 1..Len(sky_data[1].constellation_positions) :
          LET p == sky_data[1].constellation_positions[n] IN
          /\ AggregatedAlts(p.name) = {0, 4004}
          /\ p.alt_deg > 0
          /\ p.alt_deg < 400

-----------------------------------------------------------------------------
(* Properties of the mean azimuth (SpecPair)                               *)

\* The stars averaged for the constellation are two equally bright stars
\* at azimuths 360 - d and d, 0 < d < 90
SymmetricPair(name) ==
    \E h1, h2 \in Aggregated(name) :
        /\ Aggregated(name) = {h1, h2}
        /\ h1 # h2
        /\ RecordOf(h1).magnitude = RecordOf(h2).magnitude
        /\ RecordOf(h2).az_deg \in HalfSpreads
        /\ RecordOf(h1).az_deg = 360 - RecordOf(h2).az_deg

\* C13: the mean azimuth is a circular mean: two equally bright stars at
\* azimuths 360 - d and d (0 < d < 90) give a mean azimuth of 0 degrees
\* within 0.5, never 180.
C13_SymmetricPairMeansNorth ==
    sky_data # None =>
        \A n \in 1..Len(sky_data[1].constellation_positions) :
            LET p == sky_data[1].constellation_positions[n] IN
            SymmetricPair(p.name) => (p.az_deg >= 0 /\ p.az_deg <= 5)

-----------------------------------------------------------------------------
(* Properties of repeated calls (SpecCalls)                                *)

\* Calls with the same observer frame and limit had the same outcome
SameQuerySameOutcome ==
    \A i, j \in 1..Len(sky_log) :
        (/\ sky_log[i].context = sky_log[j].context
         /\ sky_log[i].limiting_magnitude = sky_log[j].limiting_magnitude)
            => sky_log[i].outcome = sky_log[j].outcome

\* C14: compute_sky_data is deterministic and keeps no state between
\* calls: two calls with the same ObserverContext and limit return the
\* same stars, segments and positions whatever was computed in between,
\* and no call changes the process-wide catalog.
C14_CallsAreRepeatable ==
    [][SameQuerySameOutcome' /\ stars_df' = stars_df]_vars

\* C14 witness: a query is repeated after a query with another limit, and
\* it returned stars and a position
C14_Witness ==
    /\ Len(sky_log) = 3
    /\ sky_log[1].context = sky_log[3].context
    /\ sky_log[1].limiting_magnitude = sky_log[3].limiting_magnitude
    /\ sky_log[2].limiting_magnitude # sky_log[1].limiting_magnitude
    /\ sky_log[3].outcome.ret # None
    /\ Len(sky_log[3].outcome.ret[1].stars) > Len(sky_log[2].outcome.ret[1].stars)
    /\ Len(sky_log[3].outcome.ret[1].constellation_positions) > 0

-----------------------------------------------------------------------------
(* Properties of the constellation positions (SpecSky)                     *)

\* The names of the positions of the result, in order
PositionNames ==
    [n \in 1..Len(sky_data[1].constellation_positions) |->
        sky_data[1].constellation_positions[n].name]

\* The constellations of the file with an endpoint above the horizon
NamesWithVisibleEndpoint ==
    { LoadedLines[k].name : k \in { i \in 1..Len(LoadedLines) :
        LoadedLines[i].hip_from \in UpHips \/ LoadedLines[i].hip_to \in UpHips } }

\* The constellations of the file with a segment whose two endpoints are
\* above the horizon
NamesWithVisibleSegment ==
    { LoadedLines[k].name : k \in { i \in 1..Len(LoadedLines) :
        LoadedLines[i].hip_from \in UpHips /\ LoadedLines[i].hip_to \in UpHips } }

\* Each of the names has exactly one position, and no other name has one
OnePositionEach(names) ==
    /\ \A name \in names :
          Cardinality({ n \in DOMAIN PositionNames : PositionNames[n] = name }) = 1
    /\ \A n \in DOMAIN PositionNames : PositionNames[n] \in names

\* C15 as stated: there is exactly one position for every constellation
\* with at least one segment endpoint above the horizon, and none for any
\* other.
C15_PositionPerVisibleEndpoint ==
    sky_data # None => OnePositionEach(NamesWithVisibleEndpoint)

\* C15 amended: there is exactly one position for every constellation with
\* at least one segment whose two endpoints are both above the horizon, and
\* none for any other: a constellation with a visible endpoint but no such
\* segment gets no position.
C15_PositionPerVisibleSegment ==
    sky_data # None => OnePositionEach(NamesWithVisibleSegment)

\* C15 witness: one constellation has a position while another, with an
\* endpoint above the horizon but no segment fully above it, has none
C15_Witness ==
    /\ sky_data # None
    /\ Len(sky_data[1].constellation_positions) > 0
    /\ \E name \in NamesWithVisibleEndpoint \ NamesWithVisibleSegment :
          \A n \in DOMAIN PositionNames : PositionNames[n] # name

\* The endpoints of the visible segments of a constellation
VisibleSegmentEndpoints(name) ==
    LET lines == sky_data[1].constellation_lines
        mine == { n \in 1..Len(lines) : lines[n].name = name }
    IN  { lines[n].hip_from : n \in mine } \cup { lines[n].hip_to : n \in mine }

\* The stars above the horizon that are endpoints of any segment of a
\* constellation in the file
VisibleEndpoints(name) ==
    LET mine == { k \in 1..Len(LoadedLines) : LoadedLines[k].name = name }
    IN  ({ LoadedLines[k].hip_from : k \in mine } \cup { LoadedLines[k].hip_to : k \in mine })
            \cap UpHips

\* The position the weighted means of a set of stars of the result give
MeanOver(name, hips) == Position(name, hips, [h \in hips |-> RecordOf(h)]).ret

\* C16 as stated: the stars that contribute to a constellation's position
\* are exactly the endpoints of its visible segments.
C16_ContributorsOfVisibleSegments ==
    sky_data # None =>
        \A n \in 1..Len(sky_data[1].constellation_positions) :
            LET p == sky_data[1].constellation_positions[n] IN
            Some(p) = MeanOver(p.name, VisibleSegmentEndpoints(p.name))

\* C16 amended: the stars that contribute to a constellation's position
\* are exactly the stars above the horizon that are endpoints of any
\* segment of the constellation in the file, visible or not: a star above
\* the horizon that is an endpoint only of non-visible segments of the
\* constellation contributes as well.
C16_ContributorsAboveHorizon ==
    sky_data # None =>
        \A n \in 1..Len(sky_data[1].constellation_positions) :
            LET p == sky_data[1].constellation_positions[n] IN
            Some(p) = MeanOver(p.name, VisibleEndpoints(p.name))

\* C16 witness: a star above the horizon, an endpoint of no visible segment
\* of the constellation, moves the constellation's position
C16_Witness ==
    /\ sky_data # None
    /\ \E n \in 1..Len(sky_data[1].constellation_positions) :
          LET p == sky_data[1].constellation_positions[n] IN
          /\ VisibleEndpoints(p.name) \ VisibleSegmentEndpoints(p.name) # {}
          /\ Some(p) = MeanOver(p.name, VisibleEndpoints(p.name))
          /\ Some(p) # MeanOver(p.name, VisibleSegmentEndpoints(p.name))

\* sub is obtained from seq by deleting elements
RECURSIVE IsSubsequence(_, _)
IsSubsequence(sub, seq) ==
    IF sub = <<>> THEN TRUE
    ELSE IF seq = <<>> THEN FALSE
    ELSE IF sub[1] = seq[1] /\ IsSubsequence(Tail(sub), Tail(seq)) THEN TRUE
    ELSE IsSubsequence(sub, Tail(seq))

\* C17: SkyData.constellation_lines is a subsequence of the loaded segment
\* table: its segments are segments of the table, in the table's order,
\* none reordered, duplicated or invented.
C17_LinesAreSubsequence ==
    sky_data # None => IsSubsequence(sky_data[1].constellation_lines, LoadedLines)

\* C17 witness: two different segments are visible and a segment of the
\* table that precedes one of them is not
C17_Witness ==
    /\ sky_data # None
    /\ \E i, j, k \in 1..Len(LoadedLines) :
          /\ i < j
          /\ i < k
          /\ j < k
          /\ sky_data[1].constellation_lines = <<LoadedLines[j], LoadedLines[k]>>
          /\ LoadedLines[j] # LoadedLines[k]

\* The names of the visible segments of the result, in order
LineNames ==
    [n \in 1..Len(sky_data[1].constellation_lines) |-> sky_data[1].constellation_lines[n].name]

\* The elements of a sequence in the order of their first occurrence
RECURSIVE FirstSeen(_, _)
FirstSeen(seq, seen) ==
    IF seq = <<>> THEN seen
    ELSE IF \E n \in 1..Len(seen) : seen[n] = seq[1]
         THEN FirstSeen(Tail(seq), seen)
         ELSE FirstSeen(Tail(seq), Append(seen, seq[1]))

\* C18: the positions follow the codes of the visible segments,
\* de-duplicated, in the order of each code's first visible segment; no
\* code appears twice.
C18_PositionsInFirstSeenOrder ==
    sky_data # None =>
        /\ PositionNames = FirstSeen(LineNames, <<>>)
        /\ \A n, m \in DOMAIN PositionNames : n # m => PositionNames[n] # PositionNames[m]

\* C18 witness: a code's visible segments are separated by another code's,
\* and each code has one position, in first-seen order
C18_Witness ==
    /\ sky_data # None
    /\ Len(LineNames) >= 3
    /\ LineNames[1] = LineNames[Len(LineNames)]
    /\ LineNames[2] # LineNames[1]
    /\ PositionNames = <<LineNames[1], LineNames[2]>>

\* C19: every code that occurs in the visible segments yields exactly one
\* ConstellationPosition, its set of member stars being non-empty (the
\* zero-member guard is not taken for it); the codes of the positions are
\* the codes of SkyData.constellation_lines, and every position carries
\* defined values.
C19_EveryVisibleCodeHasPosition ==
    sky_data # None =>
        LET line_names == { LineNames[n] : n \in DOMAIN LineNames }
            position_names == { PositionNames[n] : n \in DOMAIN PositionNames }
        IN  /\ position_names = line_names
            /\ \A name \in line_names :
                  /\ Aggregated(name) # {}
                  /\ \E n \in DOMAIN PositionNames :
                        /\ PositionNames[n] = name
                        /\ \A m \in DOMAIN PositionNames : PositionNames[m] = name => m = n
            /\ \A n \in 1..Len(sky_data[1].constellation_positions) :
                  /\ sky_data[1].constellation_positions[n].az_deg \in 0..3600
                  /\ sky_data[1].constellation_positions[n].alt_deg \in 0..900

\* C19 witness: a visible segment whose two endpoints are exactly on the
\* horizon, and the position of its constellation
C19_Witness ==
    /\ sky_data # None
    /\ \E n \in 1..Len(sky_data[1].constellation_positions) :
          LET p == sky_data[1].constellation_positions[n] IN
          /\ AggregatedAlts(p.name) = {0}
          /\ p.alt_deg = 0
          /\ \E k \in DOMAIN LineNames : LineNames[k] = p.name

\* C20: for every star that can contribute, the weight
\* 1 / (magnitude + 3.0) has a positive denominator, stars of negative
\* magnitude included, so the weight is positive and finite, the total
\* weight of every position is positive, and no mean divides by zero.
C20_WeightsArePositive ==
    /\ exc # None => exc[1].type # "ZeroDivisionError"
    /\ sky_data # None =>
          /\ \A j \in 1..Len(sky_data[1].stars) :
                WeightDen(sky_data[1].stars[j].magnitude) > 0
          /\ \A n \in 1..Len(sky_data[1].constellation_positions) :
                LET hips == Aggregated(sky_data[1].constellation_positions[n].name)
                    l == LcmOf({ WeightDen(RecordOf(h).magnitude) : h \in hips })
                IN  SumOver(hips, [h \in hips |-> l \div WeightDen(RecordOf(h).magnitude)]) > 0

\* C20 witness: a star of magnitude -1.4 and a fainter star at another
\* altitude are averaged, and the mean lies strictly between the two
C20_Witness ==
    /\ sky_data # None
    /\ \E n \in 1..Len(sky_data[1].constellation_positions) :
          LET p == sky_data[1].constellation_positions[n] IN
          /\ \E h \in Aggregated(p.name) : RecordOf(h).magnitude < 0
          /\ \E h \in Aggregated(p.name) : RecordOf(h).magnitude > 0
          /\ AggregatedAlts(p.name) = {0, 4004}
          /\ p.alt_deg > 0
          /\ p.alt_deg < 400

\* C21 as stated: a constellation whose position is aggregated from exactly
\* one star gets that star's own azimuth and altitude.
C21_SingleStarOwnPosition ==
    sky_data # None =>
        \A n \in 1..Len(sky_data[1].constellation_positions) :
            LET p == sky_data[1].constellation_positions[n] IN
            \A h \in Aggregated(p.name) :
                Aggregated(p.name) = {h} =>
                    /\ p.az_deg = 10 * RecordOf(h).az_deg
                    /\ 10 * p.alt_deg = RecordOf(h).alt_deg

\* C21 amended: a constellation whose position is aggregated from exactly
\* one star gets that star's own azimuth and altitude, each rounded to one
\* decimal.
C21_SingleStarRoundedPosition ==
    sky_data # None =>
        \A n \in 1..Len(sky_data[1].constellation_positions) :
            LET p == sky_data[1].constellation_positions[n] IN
            \A h \in Aggregated(p.name) :
                Aggregated(p.name) = {h} =>
                    /\ p.az_deg = 10 * RecordOf(h).az_deg
                    /\ 10 * p.alt_deg - RecordOf(h).alt_deg \in -5..5

\* C21 witness: the position of a constellation whose only star is at
\* altitude 40.04 has altitude 40.0
C21_Witness ==
    /\ sky_data # None
    /\ \E n \in 1..Len(sky_data[1].constellation_positions) :
          LET p == sky_data[1].constellation_positions[n] IN
          \E h \in Aggregated(p.name) :
              /\ Aggregated(p.name) = {h}
              /\ RecordOf(h).alt_deg = 4004
              /\ p.alt_deg = 400
              /\ p.az_deg = 100

-----------------------------------------------------------------------------
(* Properties of the segment table (SpecReload, SpecLoad)                  *)

\* C22: the segment table is loaded once at process start and not read
\* again: no call reads the file, and every call, and both steps of one
\* call, use the same table contents.
C22_TableLoadedOnce ==
    \A i, j \in 1..Len(sky_log) :
        /\ sky_log[i].reads = <<>>
        /\ \A a \in 1..Len(sky_log[i].reads), b \in 1..Len(sky_log[j].reads) :
              sky_log[i].reads[a] = sky_log[j].reads[b]

\* The records of the file hold integer IDs only
AllIdsAreIntegers ==
    \A r \in 1..Len(fab) : \A t \in 3..Len(fab[r]) : IntOf(fab[r][t]) # None

\* The segments of a record: its IDs taken as the pairs (ID1, ID2),
\* (ID3, ID4), ..., for a record of at least min_fields fields
SegmentsOfRecord(parts, min_fields) ==
    IF Len(parts) < min_fields THEN <<>>
    ELSE [k \in 1..((Len(parts) - 2) \div 2) |->
            [hip_from |-> IntOf(parts[2 * k + 1])[1],
             hip_to |-> IntOf(parts[2 * k + 2])[1],
             name |-> parts[1]]]

\* The segments of the records of the file, in file order
RECURSIVE SegmentsOfFile(_, _, _)
SegmentsOfFile(file, min_fields, r) ==
    IF r > Len(file) THEN <<>>
    ELSE SegmentsOfRecord(file[r], min_fields) \o SegmentsOfFile(file, min_fields, r + 1)

\* C23 as stated: each record's IDs are decoded as consecutive
\* non-overlapping pairs in order, and a record with fewer than 2 ID pairs
\* (fewer than 6 fields) contributes no segment.
C23_RecordsBelowTwoPairsSkipped ==
    AllIdsAreIntegers =>
        /\ load_constellation_lines(fab).raised = None
        /\ load_constellation_lines(fab).ret = SegmentsOfFile(fab, 6, 1)

\* C23 amended: each record's IDs are decoded as consecutive
\* non-overlapping pairs in order, and a record with fewer than 2 IDs
\* (fewer than 4 fields) contributes no segment; a record with one pair
\* contributes one segment.
C23_RecordsBelowOnePairSkipped ==
    AllIdsAreIntegers =>
        /\ load_constellation_lines(fab).raised = None
        /\ load_constellation_lines(fab).ret = SegmentsOfFile(fab, 4, 1)

\* C23 witness: the file holds a record with one pair and a record with
\* two pairs, and the call returned the segments of both
C23_Witness ==
    /\ sky_data # None
    /\ fab = << <<"Ori", "1", "1", "2">>, <<"UMa", "2", "1", "2", "2", "3">> >>
    /\ Len(sky_data[1].constellation_lines) = 2
    /\ sky_data[1].constellation_lines[1] = [hip_from |-> 1, hip_to |-> 2, name |-> "Ori"]
    /\ sky_data[1].constellation_lines[2] = [hip_from |-> 1, hip_to |-> 2, name |-> "UMa"]

\* C24: loading the segment table never fails on a malformed record: the
\* load raises nothing, a record with a non-integer ID, too few fields or
\* an unpaired trailing ID does no harm, and the well-formed records are
\* loaded.
C24_MalformedRecordsDropped ==
    /\ load_constellation_lines(fab).raised = None
    /\ exc = None
    /\ \A r \in 1..Len(fab) :
          (\A t \in 3..Len(fab[r]) : IntOf(fab[r][t]) # None) =>
              \A k \in 1..Len(SegmentsOfRecord(fab[r], 4)) :
                  \E n \in 1..Len(load_constellation_lines(fab).ret) :
                      load_constellation_lines(fab).ret[n] = SegmentsOfRecord(fab[r], 4)[k]

-----------------------------------------------------------------------------
(* Further properties of the address resolver (Spec)                       *)

\* C25: when the ROAD request answers with a provider-reported error
\* status, PARCEL is not requested: the next request goes to the global
\* provider, and the regional error does not reach the caller.
C25_RoadErrorSkipsParcel ==
    \A i \in CallIndexes :
        (/\ calls[i].provider = "vworld"
         /\ calls[i].type = "ROAD"
         /\ calls[i].outcome = "ERROR") =>
            /\ \A j \in CallIndexes : calls[j].type # "PARCEL"
            /\ i < Len(calls) => calls[i + 1].provider = "nominatim"
            /\ i = Len(calls) => (pc = "nominatim" /\ exc = None)
            /\ exc # None => exc[1] # GeocodingError("vworld error", <<>>)

\* C25 witness: ROAD answered with an error status, the global provider
\* then matched, and the query went on
C25_Witness ==
    /\ Len(calls) = 2
    /\ calls[1].provider = "vworld"
    /\ calls[1].type = "ROAD"
    /\ calls[1].outcome = "ERROR"
    /\ calls[2].provider = "nominatim"
    /\ calls[2].outcome = "MATCH"
    /\ pc = "returned"

-----------------------------------------------------------------------------
(* Further properties of the constellation assembler (SpecSky)             *)

\* The stars of the result
StarHips == { sky_data[1].stars[j].hip : j \in 1..Len(sky_data[1].stars) }

\* The stars the catalog holds with a position and a magnitude within the
\* limit
PlottableHips ==
    { stars_df[i].hip : i \in { k \in 1..Len(stars_df) :
        /\ stars_df[k].magnitude <= limiting_magnitude
        /\ stars_df[k].ra_degrees # None
        /\ stars_df[k].dec_degrees # None } }

\* C26: both endpoints of every segment of SkyData.constellation_lines are
\* stars of SkyData.stars; a segment of the file with an endpoint that is
\* fainter than the limit or missing from the catalog is never visible.
C26_SegmentEndpointsArePlotted ==
    sky_data # None =>
        /\ \A n \in 1..Len(sky_data[1].constellation_lines) :
              /\ sky_data[1].constellation_lines[n].hip_from \in StarHips
              /\ sky_data[1].constellation_lines[n].hip_to \in StarHips
        /\ \A k \in 1..Len(LoadedLines) :
              (LoadedLines[k].hip_from \notin PlottableHips
                  \/ LoadedLines[k].hip_to \notin PlottableHips) =>
                  \A n \in 1..Len(sky_data[1].constellation_lines) :
                      sky_data[1].constellation_lines[n] # LoadedLines[k]

\* C26 witness: a segment is visible, and another segment, from a star
\* above the horizon to a star that is too faint or not in the catalog, is
\* not
C26_Witness ==
    /\ sky_data # None
    /\ Len(sky_data[1].constellation_lines) > 0
    /\ \E k \in 1..Len(LoadedLines) :
          /\ LoadedLines[k].hip_from \in UpHips
          /\ LoadedLines[k].hip_to \notin PlottableHips
          /\ \A n \in 1..Len(sky_data[1].constellation_lines) :
                sky_data[1].constellation_lines[n] # LoadedLines[k]

\* C27: every ConstellationPosition has az_deg in [0, 360): the value
\* stored after the modulo and the rounding to one decimal is never 360.0
\* and never negative.
C27_AzimuthBelow360 ==
    sky_data # None =>
        \A n \in 1..Len(sky_data[1].constellation_positions) :
            /\ sky_data[1].constellation_positions[n].az_deg >= 0
            /\ sky_data[1].constellation_positions[n].az_deg < 3600

-----------------------------------------------------------------------------
(* Properties of the app's session (SpecApp)                               *)

\* C28: over any sequence of script runs of one session narrative_count
\* never exceeds 3; it changes only by one, in a run whose narrative
\* generation returned; once it is 3 no run calls the narrative generator,
\* and a submission whose sky computation returns still stores the chart and
\* shows the limit message.
C28_NarrativeLimit ==
    [][/\ session.narrative_count <= MAX_NARRATIVES_PER_SESSION
       /\ session'.narrative_count <= MAX_NARRATIVES_PER_SESSION
       /\ session'.narrative_count # session.narrative_count =>
              /\ session'.narrative_count = session.narrative_count + 1
              /\ app'.narrative_calls = app.narrative_calls + 1
              /\ session'.narrative = Some("generated")
       /\ session.narrative_count = MAX_NARRATIVES_PER_SESSION =>
              /\ app'.narrative_calls = app.narrative_calls
              /\ (app'.run_calls # app.run_calls /\ app'.run_outcome = "ok") =>
                     /\ session'.narrative = Some("narrative_limit")
                     /\ session'.sky_data # None
                     /\ session'.narrative_count = MAX_NARRATIVES_PER_SESSION]_vars

\* A submission after the third narrative: the chart of the new address is
\* stored and the limit message is shown
C28_Witness ==
    /\ session.narrative_count = MAX_NARRATIVES_PER_SESSION
    /\ session.narrative = Some("narrative_limit")
    /\ session.sky_data = Some("Paris")
    /\ app.run_calls > app.narrative_calls
    /\ app.narrative_calls = MAX_NARRATIVES_PER_SESSION

\* C29: a script run whose submission ends in GeocodingError sets error_msg
\* and ends in st.rerun() without calling the narrative generator; sky_data,
\* narrative_count and input_open keep their values and narrative is None.
C29_GeocodingErrorKeepsChart ==
    [][app'.run_outcome = "GeocodingError" =>
           /\ session'.error_msg # None
           /\ app'.rerun
           /\ app'.narrative_calls = app.narrative_calls
           /\ session'.sky_data = session.sky_data
           /\ session'.narrative_count = session.narrative_count
           /\ session'.input_open = session.input_open
           /\ session'.narrative = None]_vars

\* A failed submission after a successful one: the earlier chart is still
\* in the session
C29_Witness ==
    /\ app.run_outcome = "GeocodingError"
    /\ session.sky_data # None
    /\ session.narrative_count = 1
    /\ session.narrative = None
    /\ session.error_msg # None

\* C30: while privacy_agreed is false no script run renders the input form
\* or calls run or the narrative generator, and sky_data is None;
\* privacy_agreed never goes back to false and becomes true only in a run
\* started by the confirm button.
C30_PrivacyGateBlocks ==
    [][/\ ~session.privacy_agreed =>
              /\ session.sky_data = None
              /\ session'.sky_data = None
              /\ app'.run_calls = app.run_calls
              /\ app'.narrative_calls = app.narrative_calls
              /\ app'.rendered \subseteq {"privacy_confirm"}
       /\ session.privacy_agreed => session'.privacy_agreed
       /\ session'.privacy_agreed # session.privacy_agreed =>
              app'.clicked = "privacy_confirm"]_vars

\* The language is known and the default input chosen, and the page still
\* shows only the notice
C30_Witness ==
    /\ ~session.privacy_agreed
    /\ session.default_input
    /\ app.clicked = "js_eval"
    /\ app.rendered = {"privacy_confirm"}
    /\ app.run_calls = 0
=============================================================================
